---- MODULE Spec2Model ----
(***************************************************************************)
(* Model of the Echo state store (echo-state 1.2.3): the zustand-backed    *)
(* state container, the IndexedDB persistence middleware and the           *)
(* BroadcastChannel synchronisation between browsing contexts.             *)
(*                                                                         *)
(* Five specifications share the actions:                                  *)
(*   Spec     - two contexts "A" and "B" holding a store of the same name, *)
(*              storageType "localStorage", sync option on;                *)
(*   SpecStore - one context "A" of either storage type, for "indexedDB"   *)
(*              with its middleware and database, sync option on; the      *)
(*              peers of the channel are the environment (EnvPost).        *)
(*   SpecFault - SpecStore's store with a backend that may fail an open,   *)
(*              a read or a write, and peers that may post messages of     *)
(*              any shape;                                                 *)
(*   SpecSync - the same store with sync(enabled) calls and beforeunload   *)
(*              events;                                                    *)
(*   SpecUnnamed - one store constructed without a name.                   *)
(*                                                                         *)
(* A state value is a JavaScript object: a sequence of <<key, value>>      *)
(* pairs in insertion order, because JSON.stringify (the state hash)       *)
(* depends on that order.  Timers are untimed: a pending timer may fire at *)
(* any later step; "within one debounce window" is "before it fires".      *)
(***************************************************************************)
EXTENDS Naturals, Sequences, FiniteSets, TLC

\* ------------------------------------------------------------------ bounds
MaxOps == 2        \* set / delete / reset calls in one run of Spec
MaxStoreEvents == 2   \* set / delete / reset calls plus envelopes of peers in one run of SpecStore
MaxFaultEvents == 1   \* set calls plus messages of peers in one run of SpecFault
MaxFailures == 1      \* storage requests that fail in one run of SpecFault
MaxSyncEvents == 2    \* calls, beforeunload events and envelopes of peers in one run of SpecSync
MaxUnnamedEvents == 3 \* calls and beforeunload events in one run of SpecUnnamed

\* ------------------------------------------------------ program constants
MAX_RETRY_COUNT == 3

\* ------------------------------------------------------------- the values
Contexts == {"A", "B"}
KeySet == {"x", "y"}
DefaultValue == << <<"x", "1">> >>
\* the arguments handed to set(): partial objects
SetArgs == { << <<"x", "2">> >>, << <<"y", "2">> >>, << <<"x", "1">> >> }
\* the states carried by envelopes of the environment's peers
EnvStates == { << <<"x", "2">> >>, << <<"y", "2">>, <<"x", "1">> >> }
\* the records the database may hold when the store is constructed
SavedStates == { << <<"y", "2">> >> }
\* a message that is not an object (null, a string, a number)
Primitive(t) == [primitive |-> t]
\* messages of a peer that are not state-update envelopes: not an object, no
\* type, another type, no state, no timestamp, and an object whose own
\* property hasOwnProperty is not a function
Malformed ==
    { Primitive("null"), Primitive("string"),
      [state |-> << <<"x", "2">> >>, timestamp |-> "now"],
      [type |-> "ping", state |-> << <<"x", "2">> >>, timestamp |-> "now"],
      [type |-> "state-update", timestamp |-> "now"],
      [type |-> "state-update", state |-> << <<"x", "2">> >>],
      [type |-> "state-update", hasOwnProperty |-> "1"] }

\* ----------------------------------------------------------- JS objects
ObjKeys(s) == { s[i][1] : i \in 1..Len(s) }

Lookup(s, k) == (CHOOSE i \in 1..Len(s) : s[i][1] = k)

ValueOf(s, k) == s[Lookup(s, k)][2]

\* deep equality of two objects (key order is irrelevant)
SameValue(a, b) ==
    /\ ObjKeys(a) = ObjKeys(b)
    /\ \A k \in ObjKeys(a) : ValueOf(a, k) = ValueOf(b, k)

\* target[k] = v
PutKey(s, k, v) ==
    IF k \in ObjKeys(s)
    THEN SubSeq(s, 1, Lookup(s, k) - 1) \o << <<k, v>> >>
           \o SubSeq(s, Lookup(s, k) + 1, Len(s))
    ELSE Append(s, <<k, v>>)

RECURSIVE ObjectAssign_keepOld(_, _)
ObjectAssign_keepOld(s, p) ==
    IF Len(p) = 0 THEN s
    ELSE IF p[1][1] \in ObjKeys(s) THEN ObjectAssign_keepOld(s, Tail(p))
    ELSE ObjectAssign_keepOld(Append(s, p[1]), Tail(p))

\* Object.assign({}, s, p)
RECURSIVE ObjectAssign(_, _)
ObjectAssign(s, p) ==
    IF Len(p) = 0 THEN s
    ELSE ObjectAssign(PutKey(s, p[1][1], p[1][2]), Tail(p))

DeleteKey_dropOthers(s, k) == SelectSeq(s, LAMBDA e : e[1] = k)

\* const n = {...s}; delete n[k]
DeleteKey(s, k) == SelectSeq(s, LAMBDA e : e[1] # k)

RECURSIVE Flatten(_)
Flatten(s) == IF Len(s) = 0 THEN <<>> ELSE <<s[1][1], s[1][2]>> \o Flatten(Tail(s))

\* JSON.stringify(state): the tokens of the text, in key order
getStateHash(s) == <<"{">> \o Flatten(s) \o <<"}">>

\* a null hash (lastSyncHash, lastSavedState)
NoHash == <<>>

setState_alwaysReplace(s, partial, replace) == partial

setState_alwaysMerge(s, partial, replace) == ObjectAssign(s, partial)

\* zustand's setState(partial, replace) on state s
setState(s, partial, replace) ==
    IF replace THEN partial ELSE ObjectAssign(s, partial)

\* ---------------------------------------------------------------- state
VARIABLES
    storageType,    \* options.storageType of the stores of this run, or "none" for
                    \* stores constructed without options.name
    current,        \* [context -> store.getState()]
    channel,        \* [context -> this.channel !== null]
    lastSyncHash,   \* [context -> this.lastSyncHash]
    syncTimeout,    \* [context -> <<>> or <<[state, hash]>>: the pending broadcast timer]
    inbox,          \* [context -> envelopes posted to its channel, not yet dispatched]
    deferred,       \* [context -> inbound updates waiting in the SYNC_DELAY timeout]
    syncInit,       \* [context -> "scheduled" | "done": the constructor's deferred initializeSync]
    bcast,          \* what the store's fields do not show of its sync: [context ->
                    \*   [orphans: the BroadcastChannel objects it opened, never closed
                    \*      and no longer references;
                    \*    awaiting: the initializeSync() calls of sync(true) awaiting
                    \*      waitForStorage();
                    \*    to: for each message of inbox, the channel object it is
                    \*      queued on, "channel" (this.channel) or "orphan"]]
    handle,         \* the HistoryMessage object the application holds: <<>> or
                    \*   <<[id, bot, system, list]>>
    detached,       \* an inbound update has replaced the store's state, and with it
                    \*   the entry objects, after the pending broadcast timer captured
                    \*   its state (by reference)
    chats,          \* the Bot.chat calls in flight, each by the await it is at:
                    \*   "stream" | "tool"
    retry,          \* the saveStateWithRetry call: [state, retryCount, phase, attempts]
    lsRecord,       \* localStorage[name]: <<>> or <<state>> (shared by the contexts)
    echoDB,         \* Echo.storageInitPromise has resolved
    db,             \* the middleware storage's this.db !== null
    waiters,        \* storage operations awaiting their own initDB(), in call order
    txQueue,        \* transactions created on the database, in creation order
    record,         \* the persisted record under the store name: <<>> or <<state>>
    hyd,            \* initializeState: "waitDB" | "get" | "seed" | "done"
    lastSavedState, \* the middleware's lastSavedState
    saveTimeout,    \* <<>> or <<state>>: the pending save timer and its captured state
    nOps,           \* history: number of set / delete / reset calls
    onlySets,       \* history: every call so far was a set
    scenarioC,      \* history: "idle" | "set" | "other" (see CallHistory)
    envCount,       \* history: envelopes posted by the environment
    winSet,         \* history: [context -> <<>> or <<value committed by the newest set since the broadcast timer last fired>>]
    winCommit,      \* history: the values committed since the save timer last fired, oldest first
    lastStep,       \* history: what the last step did
    log             \* history: [prior: the record found at construction, <<>> or <<state>>;
                    \*   rehydrated: the rehydrate notifications made, "null" or "state" by the argument;
                    \*   earlySet: <<>> or <<value committed by the newest set made before hydration
                    \*     ended on a store constructed over a record>>;
                    \*   failures: number of storage requests that failed;
                    \*   warned: initializeSync has warned that the store has no name;
                    \*   syncCalls: number of sync(enabled) calls and beforeunload events]

syncVars == <<current, channel, lastSyncHash, syncTimeout, inbox, deferred, syncInit, bcast>>
idbVars == <<echoDB, db, waiters, txQueue, record, hyd, lastSavedState>>
histVars == <<nOps, onlySets, scenarioC, envCount, winSet, winCommit, lastStep, log>>
appVars == <<handle, detached, chats, retry>>
vars == <<storageType, syncVars, lsRecord, idbVars, saveTimeout, histVars, appVars>>

\* options.sync of every store of the model
SyncOption == TRUE

Envelope(s) == [type |-> "state-update", state |-> s, timestamp |-> "now"]

Step(kind, c, old, arg, rep, calls, posts, writes, win) ==
    [kind |-> kind, ctx |-> c, old |-> old, arg |-> arg, replace |-> rep,
     onChange |-> calls, posts |-> posts, writes |-> writes, win |-> win,
     updater |-> "none", throws |-> FALSE, key |-> ""]

NoStep == Step("init", "A", <<>>, <<>>, FALSE, <<>>, <<>>, <<>>, <<>>)

\* a step of the platform (a request succeeding, an envelope being posted)
\* that calls no handler of the store
Internal == Step("internal", "A", <<>>, <<>>, FALSE, <<>>, <<>>, <<>>, <<>>)

\* zustand persist's default merge at hydration: {...current, ...persisted}
persistMerge(persisted, cur) == ObjectAssign(cur, persisted)

NoLog(pr, calls) ==
    [prior |-> pr, rehydrated |-> calls, earlySet |-> <<>>, failures |-> 0,
     warned |-> FALSE, syncCalls |-> 0]

\* no saveStateWithRetry call was made
NoRetry == [state |-> <<>>, retryCount |-> 0, phase |-> "none", attempts |-> 0]

InitCommon ==
    /\ channel = [c \in Contexts |-> FALSE]
    /\ lastSyncHash = [c \in Contexts |-> NoHash]
    /\ syncTimeout = [c \in Contexts |-> <<>>]
    /\ inbox = [c \in Contexts |-> <<>>]
    /\ deferred = [c \in Contexts |-> <<>>]
    /\ bcast = [c \in Contexts |-> [orphans |-> 0, awaiting |-> 0, to |-> <<>>]]
    /\ echoDB = FALSE
    /\ db = FALSE
    /\ txQueue = <<>>
    /\ lastSavedState = NoHash
    /\ saveTimeout = <<>>
    /\ nOps = 0
    /\ onlySets = TRUE
    /\ scenarioC = "idle"
    /\ envCount = 0
    /\ winSet = [c \in Contexts |-> <<>>]
    /\ winCommit = <<>>
    /\ lastStep = NoStep
    /\ handle = <<>>
    /\ detached = FALSE
    /\ chats = <<>>

\* two contexts, localStorage, no record before the first store was constructed
Init ==
    /\ InitCommon
    /\ retry = NoRetry
    /\ storageType = "localStorage"
    /\ syncInit = [c \in Contexts |-> "scheduled"]
    /\ current = [c \in Contexts |-> DefaultValue]
    /\ lsRecord = <<DefaultValue>>
    /\ log = NoLog(<<>>, <<"state">>)
    /\ waiters = <<>>
    /\ record = <<>>
    /\ hyd = "done"

\* ------------------------------------------------- Echo: pieces of handlers
\* data.hasOwnProperty("state") where data's own property hasOwnProperty is
\* not a function: a TypeError, caught by the handler's try/catch
validateThrows(data) ==
    /\ "primitive" \notin DOMAIN data
    /\ "type" \in DOMAIN data
    /\ data.type = "state-update"
    /\ "hasOwnProperty" \in DOMAIN data

validateStateUpdate_noTimestamp(data) ==
    /\ "primitive" \notin DOMAIN data
    /\ "type" \in DOMAIN data
    /\ data.type = "state-update"
    /\ "state" \in DOMAIN data

\* Echo.validateStateUpdate(data)
validateStateUpdate(data) ==
    /\ "primitive" \notin DOMAIN data
    /\ "type" \in DOMAIN data
    /\ data.type = "state-update"
    /\ "state" \in DOMAIN data
    /\ "timestamp" \in DOMAIN data

\* Echo.broadcastState(newState): the broadcast timer slot it leaves behind.
\* The hash test returns before the pending timer is cleared.
broadcastState(open, lastHash, pending, newState) ==
    IF ~open \/ ~SyncOption THEN pending
    ELSE IF getStateHash(newState) = lastHash THEN pending
    ELSE <<[state |-> newState, hash |-> getStateHash(newState)]>>

subscribeListener_noClear(pending, state) == Append(pending, state)

subscribeListener_keepPending(pending, state) ==
    IF pending # <<>> THEN pending ELSE <<state>>

\* the middleware's api.subscribe listener: clearTimeout, then a new timer
\* that captures the committed state
subscribeListener(pending, state) == <<state>>

onmessageState_merge(cur, envState) == setState(cur, envState, FALSE)

\* channel.onmessage: this.store.setState(event.data.state, true)
onmessageState(cur, envState) == setState(cur, envState, TRUE)

\* channel.onmessage: const oldState = this.current, read after setState
onmessageOldState(before, after) == after

onmessageBroadcast_viaSet(open, lastHash, pending, newState) ==
    broadcastState(open, lastHash, pending, newState)

\* channel.onmessage commits through store.setState, not through Echo.set:
\* the broadcast timer slot is left as it is
onmessageBroadcast(open, lastHash, pending, newState) == pending

Persist_unnamed(new) ==
    /\ lsRecord' = <<new>>
    /\ UNCHANGED <<saveTimeout, winCommit>>

\* what a commit (store.setState) does to persistence: zustand's persist
\* writes localStorage at once; the IndexedDB middleware's listener runs
Persist(new) ==
    IF storageType = "localStorage"
    THEN /\ lsRecord' = <<new>>
         /\ UNCHANGED <<saveTimeout, winCommit>>
    ELSE IF storageType = "indexedDB"
    THEN /\ saveTimeout' = subscribeListener(saveTimeout, new)
         /\ winCommit' = Append(winCommit, new)
         /\ UNCHANGED lsRecord
    ELSE UNCHANGED <<lsRecord, saveTimeout, winCommit>>

\* history of the calls made
CallHistory(op, c, v, rep) ==
    /\ nOps' = nOps + 1
    /\ onlySets' = (onlySets /\ op = "set")
    /\ scenarioC' = IF /\ scenarioC = "idle" /\ op = "set" /\ c = "A" /\ ~rep
                       /\ v = << <<"y", "2">> >>
                       /\ \A d \in Contexts : channel[d]
                    THEN "set" ELSE "other"

hasName_always == TRUE

\* this.options.name is set
hasName == storageType # "none"

\* the channel objects of context d that receive what c posts on the name:
\* every open one but the posting object, in creation order
Receivers(d, c) ==
    [i \in 1..bcast[d].orphans |-> "orphan"]
        \o (IF d # c /\ channel[d] THEN <<"channel">> ELSE <<>>)

\* postMessage on c's channel: a message event is queued on every receiver
Post(c, s) ==
    [d \in Contexts |->
        inbox[d] \o [i \in 1..Len(Receivers(d, c)) |-> Envelope(s)]]

PostTo(c) ==
    [d \in Contexts |-> [bcast[d] EXCEPT !.to = @ \o Receivers(d, c)]]

\* this.channel = new BroadcastChannel(...): the object this.channel held,
\* if any, stays open with its handler and with the messages queued on it
Orphaned(b, open) ==
    IF open THEN [b EXCEPT !.orphans = @ + 1,
                           !.to = [i \in 1..Len(@) |-> "orphan"]]
            ELSE b

\* initializeSync from "new BroadcastChannel" on: the channel is opened and
\* the current value broadcast
OpenChannel(c) ==
    /\ channel' = [channel EXCEPT ![c] = TRUE]
    /\ syncTimeout' = [syncTimeout EXCEPT ![c] =
          broadcastState(TRUE, lastSyncHash[c], @, current[c])]

\* ------------------------------------------------------------ Echo: actions
\* the updater functions handed to set()
Updaters == {"dropX", "bumpX"}

\* an updater applied to the state: the object it returns
\*   dropX: ({x, ...rest}) => rest
\*   bumpX: (s) => ({x: s.x === "1" ? "2" : "1"})
Updater(f, s) ==
    IF f = "dropX" THEN DeleteKey(s, "x")
    ELSE IF "x" \in ObjKeys(s) /\ ValueOf(s, "x") = "1"
         THEN << <<"x", "2">> >> ELSE << <<"x", "1">> >>

\* Echo.set(partial, replace) as called by the application classes; v is
\* partial, or what the updater f returned (setState calls the function on
\* the state and goes on with its result), k the key the updater is about,
\* pending the broadcast timer slot as the updater left it
SetCall(c, v, rep, f, k, pending) ==
    /\ LET old == current[c]
           new == setState(old, v, rep)
       IN /\ current' = [current EXCEPT ![c] = new]
          /\ Persist(new)
          /\ syncTimeout' = [syncTimeout EXCEPT ![c] =
                IF channel[c]
                THEN broadcastState(channel[c], lastSyncHash[c], pending, new)
                ELSE pending]
          /\ winSet' = [winSet EXCEPT ![c] = IF channel[c] THEN <<new>> ELSE @]
          /\ lastStep' = [Step("set", c, old, v, rep,
                               <<[new |-> new, old |-> old, cur |-> new]>>,
                               <<>>, <<>>, <<>>) EXCEPT !.updater = f, !.key = k]
          /\ log' = [log EXCEPT !.earlySet =
                        IF storageType = "indexedDB" /\ hyd # "done" /\ log.prior # <<>>
                        THEN <<new>> ELSE @]
    /\ CallHistory("set", c, v, rep)
    /\ UNCHANGED <<storageType, bcast, channel, lastSyncHash, inbox, deferred, syncInit,
                   idbVars, envCount>>

\* Echo.set(partial, replace); v is partial, or what the updater f returned
SetWith(c, v, rep, f) ==
    /\ SetCall(c, v, rep, f, "", syncTimeout[c])
    /\ UNCHANGED appVars

\* Echo.set(partial, replace) with an object
Set(c, v, rep) == SetWith(c, v, rep, "none")

\* Echo.set(updater, replace) with a function
SetFn(c, f, rep) == SetWith(c, Updater(f, current[c]), rep, f)

\* Echo.delete(key)
Delete(c, k) ==
    /\ LET old == current[c]
           new == setState(old, DeleteKey(old, k), TRUE)
       IN /\ current' = [current EXCEPT ![c] = new]
          /\ Persist(new)
          /\ lastStep' = Step("delete", c, old, << <<k, "">> >>, TRUE,
                              <<>>, <<>>, <<>>, <<>>)
    /\ CallHistory("delete", c, <<>>, TRUE)
    /\ UNCHANGED <<storageType, appVars, bcast, log, channel, lastSyncHash, syncTimeout, inbox, deferred,
                   syncInit, idbVars, envCount, winSet>>

\* Echo.reset()
Reset(c) ==
    /\ LET old == current[c]
           new == setState(old, DefaultValue, TRUE)
       IN /\ current' = [current EXCEPT ![c] = new]
          /\ Persist(new)
          /\ lastStep' = Step("reset", c, old, <<>>, TRUE,
                              <<[new |-> DefaultValue, old |-> old, cur |-> new]>>,
                              <<>>, <<>>, <<>>)
    /\ CallHistory("reset", c, <<>>, TRUE)
    /\ UNCHANGED <<storageType, appVars, bcast, log, channel, lastSyncHash, syncTimeout, inbox, deferred,
                   syncInit, idbVars, envCount, winSet>>

\* Echo.initializeSync(), scheduled by the constructor: without a name it
\* warns and returns; an indexedDB store first awaits storageInitPromise
InitializeSync(c) ==
    /\ syncInit[c] = "scheduled"
    /\ storageType = "indexedDB" => echoDB
    /\ syncInit' = [syncInit EXCEPT ![c] = "done"]
    /\ IF ~hasName
       THEN /\ log' = [log EXCEPT !.warned = TRUE]
            /\ UNCHANGED <<channel, syncTimeout, bcast>>
       ELSE /\ OpenChannel(c)
            /\ bcast' = [bcast EXCEPT ![c] = Orphaned(@, channel[c])]
            /\ UNCHANGED log
    /\ lastStep' = Internal
    /\ UNCHANGED <<storageType, appVars, current, lastSyncHash, inbox, deferred, lsRecord,
                   idbVars, saveTimeout, nOps, onlySets, scenarioC, envCount,
                   winSet, winCommit>>

\* the broadcast debounce timer of broadcastState fires
SyncTimerFire(c) ==
    /\ syncTimeout[c] # <<>>
    /\ LET t == syncTimeout[c][1]
       IN /\ inbox' = IF channel[c] THEN Post(c, t.state) ELSE inbox
          /\ bcast' = IF channel[c] THEN PostTo(c) ELSE bcast
          /\ lastSyncHash' = [lastSyncHash EXCEPT ![c] = t.hash]
          /\ lastStep' = Step("syncTimer", c, current[c], <<>>, FALSE, <<>>,
                              IF channel[c] THEN <<t.state>> ELSE <<>>,
                              <<>>, winSet[c])
    /\ syncTimeout' = [syncTimeout EXCEPT ![c] = <<>>]
    /\ winSet' = [winSet EXCEPT ![c] = <<>>]
    /\ UNCHANGED <<storageType, appVars, log, current, channel, deferred, syncInit, lsRecord,
                   idbVars, saveTimeout, nOps, onlySets, scenarioC, envCount,
                   winCommit>>

\* channel.onmessage from "this.lastSyncHash = hash" on: the application
ApplyUpdate(c, s, kind) ==
    LET old == current[c]
        new == onmessageState(old, s)
    IN /\ lastSyncHash' = [lastSyncHash EXCEPT ![c] = getStateHash(s)]
       /\ current' = [current EXCEPT ![c] = new]
       /\ Persist(new)
       /\ syncTimeout' = [syncTimeout EXCEPT ![c] =
             onmessageBroadcast(channel[c], lastSyncHash[c], @, new)]
       /\ lastStep' = Step(kind, c, old, s, TRUE,
                           <<[new |-> s, old |-> onmessageOldState(old, new),
                              cur |-> new]>>,
                           <<>>, <<>>, <<>>)

\* channel.onmessage: an envelope is dispatched to c's handler
Dispatch(c) ==
    /\ inbox[c] # <<>>
    /\ inbox' = [inbox EXCEPT ![c] = Tail(@)]
    /\ bcast' = [bcast EXCEPT ![c].to = Tail(@)]
    /\ LET data == Head(inbox[c])
       IN IF ~validateThrows(data)
             /\ validateStateUpdate(data)
             /\ getStateHash(data.state) # lastSyncHash[c]
          THEN IF storageType = "indexedDB"
               THEN /\ deferred' = [deferred EXCEPT ![c] = Append(@, data.state)]
                    /\ lastStep' = Step("defer", c, current[c], data.state, TRUE,
                                        <<>>, <<>>, <<>>, <<>>)
                    /\ UNCHANGED <<current, lastSyncHash, syncTimeout, lsRecord,
                                   saveTimeout, winCommit>>
               ELSE /\ ApplyUpdate(c, data.state, "apply")
                    /\ UNCHANGED deferred
          ELSE /\ lastStep' = Step("ignore", c, current[c],
                                   IF "state" \in DOMAIN data THEN data.state ELSE <<>>,
                                   TRUE, <<>>, <<>>, <<>>, <<>>)
               /\ UNCHANGED <<current, lastSyncHash, syncTimeout, deferred, lsRecord,
                              saveTimeout, winCommit>>
    /\ UNCHANGED <<storageType, log, channel, syncInit, idbVars, nOps, onlySets,
                   scenarioC, envCount, winSet>>

Deliver(c) ==
    /\ Dispatch(c)
    /\ UNCHANGED appVars

\* ------------------------------------------- IndexedDBStorage and middleware
StorageOp(op, val, by) == [op |-> op, val |-> val, by |-> by]

Issue_noWait(o) ==
    /\ txQueue' = Append(txQueue, o)
    /\ UNCHANGED waiters

\* IndexedDBStorage.waitForDB followed by the transaction of getItem/setItem:
\* with this.db set the transaction is created at once, otherwise the
\* operation awaits an initDB() of its own
Issue(o) ==
    IF db THEN /\ txQueue' = Append(txQueue, o)
               /\ UNCHANGED waiters
          ELSE /\ waiters' = Append(waiters, o)
               /\ UNCHANGED txQueue

\* isHydrating is true only inside initializeState's synchronous set call:
\* whenever a timer callback runs it is false
isHydrating == FALSE

\* saveState(state): the test that skips the write
saveStateSkips(state) ==
    getStateHash(state) = lastSavedState \/ isHydrating

\* the open request of Echo's own IndexedDBStorage succeeds:
\* storageInitPromise resolves
EchoStorageReady ==
    /\ storageType = "indexedDB"
    /\ ~echoDB
    /\ echoDB' = TRUE
    /\ lastStep' = Internal
    /\ UNCHANGED <<storageType, appVars, log, syncVars, lsRecord, db, waiters, txQueue, record,
                   hyd, lastSavedState, saveTimeout, nOps, onlySets, scenarioC,
                   envCount, winSet, winCommit>>

\* IndexedDBStorage.initDB of the middleware's storage (constructor):
\* request.onsuccess sets this.db
OpenDB ==
    /\ storageType = "indexedDB"
    /\ echoDB
    /\ ~db
    /\ db' = TRUE
    /\ lastStep' = Internal
    /\ UNCHANGED <<storageType, appVars, log, syncVars, lsRecord, echoDB, waiters, txQueue,
                   record, hyd, lastSavedState, saveTimeout, nOps, onlySets,
                   scenarioC, envCount, winSet, winCommit>>

\* IndexedDBStorage.waitForDB: the initDB() an early operation awaited
\* succeeds (open requests succeed in request order) and the operation
\* creates its transaction
WaiterResume ==
    /\ db
    /\ waiters # <<>>
    /\ txQueue' = Append(txQueue, Head(waiters))
    /\ waiters' = Tail(waiters)
    /\ hyd' = IF Head(waiters).by = "hydrate" THEN "get" ELSE hyd
    /\ lastStep' = Internal
    /\ UNCHANGED <<storageType, appVars, log, syncVars, lsRecord, echoDB, db, record,
                   lastSavedState, saveTimeout, nOps, onlySets, scenarioC,
                   envCount, winSet, winCommit>>

\* the oldest transaction completes.  getItem belongs to initializeState,
\* which goes on with the record found or seeds the store's value;
\* setItem puts the record
TxComplete ==
    /\ txQueue # <<>>
    /\ LET o == Head(txQueue)
           cur == current["A"]
       IN IF o.op = "get"
          THEN IF record # <<>>
               THEN LET new == setState(cur, record[1], TRUE)
                    IN /\ current' = [current EXCEPT !["A"] = new]
                       /\ Persist(new)
                       /\ txQueue' = Tail(txQueue)
                       /\ hyd' = "done"
                       /\ lastStep' = Step("hydrate", "A", cur, record[1], TRUE,
                                           <<>>, <<>>, <<>>, <<>>)
                       /\ log' = [log EXCEPT !.rehydrated = Append(@, "state")]
                       /\ UNCHANGED record
               ELSE /\ txQueue' = Append(Tail(txQueue),
                                         StorageOp("set", <<cur>>, "seed"))
                    /\ hyd' = "seed"
                    /\ lastStep' = Step("seed", "A", cur, <<>>, FALSE,
                                        <<>>, <<>>, <<cur>>, <<>>)
                    /\ UNCHANGED <<current, record, lsRecord, saveTimeout, winCommit, log>>
          ELSE /\ record' = o.val
               /\ txQueue' = Tail(txQueue)
               /\ hyd' = IF o.by = "seed" THEN "done" ELSE hyd
               /\ lastStep' = Internal
               /\ log' = [log EXCEPT
                             !.rehydrated = IF o.by = "seed" THEN Append(@, "null") ELSE @]
               /\ UNCHANGED <<current, lsRecord, saveTimeout, winCommit>>
    /\ UNCHANGED <<storageType, appVars, bcast, channel, lastSyncHash, syncTimeout, inbox, deferred,
                   syncInit, echoDB, db, waiters, lastSavedState, nOps, onlySets,
                   scenarioC, envCount, winSet>>

\* the put request of the oldest transaction fails (quota, backend error)
\* and setItem rejects.  saveState's catch resets lastSavedState and does
\* nothing else; initializeState's catch, for the seed write, notifies null
\* and leaves isInitialized false
TxFail ==
    /\ txQueue # <<>>
    /\ Head(txQueue).op = "set"
    /\ LET o == Head(txQueue)
       IN /\ txQueue' = Tail(txQueue)
          /\ lastSavedState' = IF o.by = "save" THEN NoHash ELSE lastSavedState
          /\ hyd' = IF o.by = "seed" THEN "failed" ELSE hyd
          /\ log' = [log EXCEPT
                        !.failures = @ + 1,
                        !.rehydrated = IF o.by = "seed" THEN Append(@, "null") ELSE @]
          /\ lastStep' = [Internal EXCEPT
                            !.kind = IF o.by = "save" THEN "writeFailed" ELSE "seedFailed",
                            !.arg = o.val[1]]
    /\ UNCHANGED <<storageType, appVars, syncVars, lsRecord, echoDB, db, waiters, record,
                   saveTimeout, nOps, onlySets, scenarioC, envCount, winSet,
                   winCommit>>

initializeStateCatch_reset(cur) == DefaultValue

\* initializeState's catch block: it logs, notifies onRehydrateStorage(null)
\* and returns; the state of the store is not touched
initializeStateCatch(cur) == cur

HydrationFailed(cur) ==
    /\ hyd' = "failed"
    /\ current' = [current EXCEPT !["A"] = initializeStateCatch(cur)]
    /\ log' = [log EXCEPT !.failures = @ + 1, !.rehydrated = Append(@, "null")]
    /\ lastStep' = Step("hydrateFailed", "A", cur, <<>>, FALSE, <<>>, <<>>, <<>>, <<>>)

\* the open request of the initDB() that the oldest waiting operation awaits
\* fails (request.onerror) and waitForDB rejects: into initializeState's
\* catch for the hydration, into saveState's catch for a save
OpenFail ==
    /\ waiters # <<>>
    /\ waiters' = Tail(waiters)
    /\ LET o == Head(waiters)
       IN IF o.by = "hydrate"
          THEN /\ HydrationFailed(current["A"])
               /\ UNCHANGED lastSavedState
          ELSE /\ lastSavedState' = NoHash
               /\ log' = [log EXCEPT !.failures = @ + 1]
               /\ lastStep' = [Internal EXCEPT !.kind = "writeFailed", !.arg = o.val[1]]
               /\ UNCHANGED <<hyd, current>>
    /\ UNCHANGED <<storageType, appVars, channel, lastSyncHash, syncTimeout, inbox, deferred,
                   syncInit, bcast, lsRecord, echoDB, db, txQueue, record,
                   saveTimeout, nOps, onlySets, scenarioC, envCount, winSet,
                   winCommit>>

\* the open request made by the middleware storage's constructor fails, and
\* the initDB() the oldest waiting operation awaits succeeds: its onsuccess
\* sets this.db and the operation creates its transaction
OpenRetried ==
    /\ storageType = "indexedDB"
    /\ ~db
    /\ waiters # <<>>
    /\ db' = TRUE
    /\ txQueue' = Append(txQueue, Head(waiters))
    /\ waiters' = Tail(waiters)
    /\ hyd' = IF Head(waiters).by = "hydrate" THEN "get" ELSE hyd
    /\ log' = [log EXCEPT !.failures = @ + 1]
    /\ lastStep' = Internal
    /\ UNCHANGED <<storageType, appVars, syncVars, lsRecord, echoDB, record, lastSavedState,
                   saveTimeout, nOps, onlySets, scenarioC, envCount, winSet,
                   winCommit>>

\* the get request of initializeState's getItem fails (request.onerror):
\* getItem rejects into initializeState's catch
ReadFail ==
    /\ txQueue # <<>>
    /\ Head(txQueue).op = "get"
    /\ txQueue' = Tail(txQueue)
    /\ HydrationFailed(current["A"])
    /\ UNCHANGED <<storageType, appVars, channel, lastSyncHash, syncTimeout, inbox, deferred,
                   syncInit, bcast, lsRecord, echoDB, db, waiters, record,
                   lastSavedState, saveTimeout, nOps, onlySets, scenarioC, envCount,
                   winSet, winCommit>>

\* Echo.set on a localStorage store whose write fails: persist's setState
\* commits, then localStorage.setItem throws (quota, serialization) out of
\* store.setState and out of set, before broadcastState and onChange
SetThrows(c, v, rep) ==
    /\ storageType = "localStorage"
    /\ LET old == current[c]
           new == setState(old, v, rep)
       IN /\ current' = [current EXCEPT ![c] = new]
          /\ lastStep' = [Step("set", c, old, v, rep, <<>>, <<>>, <<>>, <<>>)
                            EXCEPT !.throws = TRUE]
    /\ log' = [log EXCEPT !.failures = @ + 1]
    /\ CallHistory("set", c, v, rep)
    /\ UNCHANGED <<storageType, appVars, bcast, channel, lastSyncHash, syncTimeout, inbox, deferred,
                   syncInit, lsRecord, idbVars, saveTimeout, envCount, winSet,
                   winCommit>>

\* the save debounce timer fires: saveState(state)
SaveTimerFire ==
    /\ saveTimeout # <<>>
    /\ LET s == saveTimeout[1]
       IN IF saveStateSkips(s)
          THEN /\ lastStep' = Step("saveTimer", "A", current["A"], s, FALSE,
                                   <<>>, <<>>, <<>>, winCommit)
               /\ UNCHANGED <<lastSavedState, waiters, txQueue>>
          ELSE /\ lastSavedState' = getStateHash(s)
               /\ Issue(StorageOp("set", <<s>>, "save"))
               /\ lastStep' = Step("saveTimer", "A", current["A"], s, FALSE,
                                   <<>>, <<>>, <<s>>, winCommit)
    /\ saveTimeout' = <<>>
    /\ winCommit' = <<>>
    /\ UNCHANGED <<storageType, appVars, log, syncVars, lsRecord, echoDB, db, record, hyd,
                   nOps, onlySets, scenarioC, envCount, winSet>>

\* channel.onmessage of an indexedDB store: the SYNC_DELAY timeout elapsed
DeferredApply(c) ==
    /\ deferred[c] # <<>>
    /\ deferred' = [deferred EXCEPT ![c] = Tail(@)]
    /\ ApplyUpdate(c, Head(deferred[c]), "applyDeferred")
    /\ UNCHANGED <<storageType, appVars, bcast, log, channel, inbox, syncInit, idbVars, nOps, onlySets,
                   scenarioC, envCount, winSet>>

\* a peer context posts a message on the channel of the store's name
EnvPost(m) ==
    /\ Receivers("A", "peer") # <<>>
    /\ envCount' = envCount + 1
    /\ inbox' = [inbox EXCEPT !["A"] = @ \o [i \in 1..Len(Receivers("A", "peer")) |-> m]]
    /\ bcast' = [bcast EXCEPT !["A"].to = @ \o Receivers("A", "peer")]
    /\ lastStep' = Internal
    /\ UNCHANGED <<storageType, appVars, log, current, channel, lastSyncHash, syncTimeout,
                   deferred, syncInit, lsRecord, idbVars, saveTimeout, nOps,
                   onlySets, scenarioC, winSet, winCommit>>

\* one store, constructed over any record, or none, persisted by an earlier
\* run.  A localStorage store is hydrated by persist inside the constructor
\* (the merge of the record into the default value; the record is left as
\* found or rewritten, by the version of the library); an indexedDB store
\* starts with initializeState awaiting the database
InitStore ==
    /\ InitCommon
    /\ retry = NoRetry
    /\ storageType \in {"localStorage", "indexedDB"}
    /\ syncInit = [c \in Contexts |-> "scheduled"]
    /\ \E pr \in {<<>>} \cup {<<s>> : s \in SavedStates} :
        IF storageType = "localStorage"
        THEN LET cur == IF pr = <<>> THEN DefaultValue
                                     ELSE persistMerge(pr[1], DefaultValue)
             IN /\ current = [c \in Contexts |-> cur]
                /\ lsRecord \in {pr, <<cur>>}
                /\ waiters = <<>>
                /\ record = <<>>
                /\ hyd = "done"
                /\ log = NoLog(pr, <<"state">>)
        ELSE /\ current = [c \in Contexts |-> DefaultValue]
             /\ lsRecord = <<>>
             /\ waiters = <<StorageOp("get", <<>>, "hydrate")>>
             /\ record = pr
             /\ hyd = "waitDB"
             /\ log = NoLog(pr, <<>>)

\* channel.close(): the message events queued on the closed object are
\* dropped, those queued on the other objects stay
RECURSIVE KeepOrphans(_, _)
KeepOrphans(msgs, tags) ==
    IF msgs = <<>> THEN <<>>
    ELSE (IF Head(tags) = "orphan" THEN <<Head(msgs)>> ELSE <<>>)
             \o KeepOrphans(Tail(msgs), Tail(tags))

\* Echo.sync(enabled).  Enabling calls initializeSync(), which warns and
\* returns without a name, opens the channel at once on a localStorage
\* store, and first awaits waitForStorage() on an indexedDB store
Sync(c, enabled) ==
    /\ IF enabled = channel[c]
       THEN UNCHANGED <<channel, lastSyncHash, syncTimeout, inbox, bcast>>
       ELSE IF ~enabled
       THEN /\ channel' = [channel EXCEPT ![c] = FALSE]
            /\ lastSyncHash' = [lastSyncHash EXCEPT ![c] = NoHash]
            /\ inbox' = [inbox EXCEPT ![c] = KeepOrphans(@, bcast[c].to)]
            /\ bcast' = [bcast EXCEPT ![c].to = KeepOrphans(@, @)]
            /\ UNCHANGED syncTimeout
       ELSE IF ~hasName
       THEN UNCHANGED <<channel, lastSyncHash, syncTimeout, inbox, bcast>>
       ELSE IF storageType = "indexedDB"
       THEN /\ bcast' = [bcast EXCEPT ![c].awaiting = @ + 1]
            /\ UNCHANGED <<channel, lastSyncHash, syncTimeout, inbox>>
       ELSE /\ OpenChannel(c)
            /\ UNCHANGED <<lastSyncHash, inbox, bcast>>
    /\ log' = [log EXCEPT
                  !.syncCalls = @ + 1,
                  !.warned = @ \/ (enabled /\ ~channel[c] /\ ~hasName)]
    /\ lastStep' = Step("sync", c, current[c], <<>>, enabled, <<>>, <<>>, <<>>, <<>>)
    /\ UNCHANGED <<storageType, appVars, current, deferred, syncInit, lsRecord, idbVars,
                   saveTimeout, nOps, onlySets, scenarioC, envCount, winSet,
                   winCommit>>

\* an initializeSync() called by sync(true) on an indexedDB store goes on
\* after waitForStorage()
AwaitedInit(c) ==
    /\ bcast[c].awaiting > 0
    /\ echoDB
    /\ OpenChannel(c)
    /\ bcast' = [bcast EXCEPT ![c] = [Orphaned(@, channel[c]) EXCEPT !.awaiting = @ - 1]]
    /\ lastStep' = Internal
    /\ UNCHANGED <<storageType, appVars, log, current, lastSyncHash, inbox, deferred, syncInit,
                   lsRecord, idbVars, saveTimeout, nOps, onlySets, scenarioC,
                   envCount, winSet, winCommit>>

\* the beforeunload listener of the constructor: with this.storage (an
\* indexedDB store with a name) it calls this.storage.setItem(name, current)
BeforeUnload ==
    /\ LET cur == current["A"]
           o == StorageOp("set", <<cur>>, "unload")
       IN IF storageType = "indexedDB"
          THEN /\ IF echoDB THEN /\ txQueue' = Append(txQueue, o)
                                 /\ UNCHANGED waiters
                            ELSE /\ waiters' = Append(waiters, o)
                                 /\ UNCHANGED txQueue
               /\ lastStep' = Step("beforeunload", "A", cur, <<>>, FALSE,
                                   <<>>, <<>>, <<cur>>, <<>>)
          ELSE /\ lastStep' = Step("beforeunload", "A", cur, <<>>, FALSE,
                                   <<>>, <<>>, <<>>, <<>>)
               /\ UNCHANGED <<txQueue, waiters>>
    /\ log' = [log EXCEPT !.syncCalls = @ + 1]
    /\ UNCHANGED <<storageType, appVars, syncVars, lsRecord, echoDB, db, record, hyd,
                   lastSavedState, saveTimeout, nOps, onlySets, scenarioC, envCount,
                   winSet, winCommit>>

\* one store constructed without options.name, with or without options.sync:
\* initialize() returns a plain store, and neither storage is constructed
InitUnnamed ==
    /\ InitCommon
    /\ retry = NoRetry
    /\ storageType = "none"
    /\ syncInit \in [Contexts -> {"scheduled", "done"}]
    /\ current = [c \in Contexts |-> DefaultValue]
    /\ lsRecord = <<>>
    /\ waiters = <<>>
    /\ record = <<>>
    /\ hyd = "done"
    /\ log = NoLog(<<>>, <<>>)

\* ------------------------------------------------------- specifications
Next ==
    \E c \in Contexts :
        \/ nOps < MaxOps /\ \E v \in SetArgs, rep \in BOOLEAN : Set(c, v, rep)
        \/ nOps < MaxOps /\ \E f \in Updaters, rep \in BOOLEAN : SetFn(c, f, rep)
        \/ nOps < MaxOps /\ \E k \in KeySet : Delete(c, k)
        \/ nOps < MaxOps /\ Reset(c)
        \/ InitializeSync(c)
        \/ SyncTimerFire(c)
        \/ Deliver(c)

Spec == Init /\ [][Next]_vars

NextStore ==
    \/ nOps + envCount < MaxStoreEvents /\ \E v \in SetArgs, rep \in BOOLEAN : Set("A", v, rep)
    \/ nOps + envCount < MaxStoreEvents /\ \E k \in KeySet : Delete("A", k)
    \/ nOps + envCount < MaxStoreEvents /\ Reset("A")
    \/ InitializeSync("A")
    \/ SyncTimerFire("A")
    \/ Deliver("A")
    \/ DeferredApply("A")
    \/ nOps + envCount < MaxStoreEvents /\ \E s \in EnvStates : EnvPost(Envelope(s))
    \/ EchoStorageReady
    \/ OpenDB
    \/ WaiterResume
    \/ TxComplete
    \/ SaveTimerFire

SpecStore == InitStore /\ [][NextStore]_vars

\* one store of either storage type whose backend may fail a write and
\* whose peers may post anything
NextFault ==
    \/ nOps + envCount < MaxFaultEvents /\ \E v \in SetArgs, rep \in BOOLEAN : Set("A", v, rep)
    \/ /\ nOps + envCount < MaxFaultEvents
       /\ log.failures < MaxFailures
       /\ \E v \in SetArgs, rep \in BOOLEAN : SetThrows("A", v, rep)
    \/ /\ nOps + envCount < MaxFaultEvents
       /\ \E m \in Malformed \cup {Envelope(s) : s \in EnvStates} : EnvPost(m)
    \/ nOps + envCount < MaxFaultEvents /\ \E k \in KeySet : Delete("A", k)
    \/ nOps + envCount < MaxFaultEvents /\ Reset("A")
    \/ InitializeSync("A")
    \/ SyncTimerFire("A")
    \/ Deliver("A")
    \/ DeferredApply("A")
    \/ EchoStorageReady
    \/ OpenDB
    \/ WaiterResume
    \/ TxComplete
    \/ log.failures < MaxFailures /\ TxFail
    \/ log.failures < MaxFailures /\ OpenFail
    \/ log.failures < MaxFailures /\ OpenRetried
    \/ log.failures < MaxFailures /\ ReadFail
    \/ SaveTimerFire

SpecFault == InitStore /\ [][NextFault]_vars

\* a continuation of an initializeSync() awaiting an already resolved
\* storageInitPromise runs before any timer or event; only the caller's own
\* synchronous calls can come before it
Settled == \A c \in Contexts : ~(echoDB /\ bcast[c].awaiting > 0)

SyncEvents == nOps + envCount + log.syncCalls

\* one named store of either storage type whose sync is switched on and off
NextSync ==
    \/ SyncEvents < MaxSyncEvents /\ \E v \in SetArgs, rep \in BOOLEAN : Set("A", v, rep)
    \/ SyncEvents < MaxSyncEvents /\ \E k \in KeySet : Delete("A", k)
    \/ SyncEvents < MaxSyncEvents /\ Reset("A")
    \/ SyncEvents < MaxSyncEvents /\ \E en \in BOOLEAN : Sync("A", en)
    \/ AwaitedInit("A")
    \/ /\ Settled
       /\ \/ SyncEvents < MaxSyncEvents /\ BeforeUnload
          \/ /\ SyncEvents < MaxSyncEvents
             /\ \E s \in EnvStates \cup SavedStates : EnvPost(Envelope(s))
          \/ InitializeSync("A")
          \/ SyncTimerFire("A")
          \/ Deliver("A")
          \/ DeferredApply("A")
          \/ EchoStorageReady
          \/ OpenDB
          \/ WaiterResume
          \/ TxComplete
          \/ SaveTimerFire

SpecSync == InitStore /\ [][NextSync]_vars

\* one store without a name
NextUnnamed ==
    \/ SyncEvents < MaxUnnamedEvents /\ \E v \in SetArgs, rep \in BOOLEAN : Set("A", v, rep)
    \/ SyncEvents < MaxUnnamedEvents /\ \E f \in Updaters, rep \in BOOLEAN : SetFn("A", f, rep)
    \/ SyncEvents < MaxUnnamedEvents /\ \E k \in KeySet : Delete("A", k)
    \/ SyncEvents < MaxUnnamedEvents /\ Reset("A")
    \/ SyncEvents < MaxUnnamedEvents /\ \E en \in BOOLEAN : Sync("A", en)
    \/ SyncEvents < MaxUnnamedEvents /\ BeforeUnload
    \/ InitializeSync("A")

SpecUnnamed == InitUnnamed /\ [][NextUnnamed]_vars

\* ------------------------------------------------------------ KnowledgeStore
\* KnowledgeStore.store = new Echo({}, {name: "knowledge",
\*                                     storageType: "indexedDB", sync: true})
KnowledgeIds == {"k1", "k2"}

\* the Knowledge object addKnowledge builds (its files and dates play no part)
Knowledge == "knowledge"

\* the store of the knowledge bases, constructed over no record or over
\* the record of an earlier run that holds one knowledge base
InitKnowledge ==
    /\ InitCommon
    /\ retry = NoRetry
    /\ storageType = "indexedDB"
    /\ syncInit = [c \in Contexts |-> "scheduled"]
    /\ current = [c \in Contexts |-> <<>>]
    /\ lsRecord = <<>>
    /\ waiters = <<StorageOp("get", <<>>, "hydrate")>>
    /\ record \in {<<>>, << << <<"k1", Knowledge>> >> >>}
    /\ hyd = "waitDB"
    /\ log = NoLog(record, <<>>)

\* KnowledgeStore.addKnowledge from "this.store.set" on:
\*   this.store.set((prev) => ({...prev, [knowledge.id]: knowledge}))
\* with knowledge.id = gen.id(), an id no knowledge base has
AddKnowledge(id) ==
    /\ id \notin ObjKeys(current["A"])
    /\ SetCall("A", PutKey(current["A"], id, Knowledge), FALSE,
               "addKnowledge", id, syncTimeout["A"])
    /\ UNCHANGED appVars

\* KnowledgeStore.deleteKnowledge(id):
\*   this.store.set((prev) => { const newState = {...prev};
\*                              delete newState[id]; return newState })
DeleteKnowledge(id) ==
    /\ SetCall("A", DeleteKey(current["A"], id), FALSE,
               "deleteKnowledge", id, syncTimeout["A"])
    /\ UNCHANGED appVars

MaxKnowledgeEvents == 2     \* knowledge bases added and deleted

NextKnowledge ==
    \/ nOps < MaxKnowledgeEvents /\ \E id \in KnowledgeIds : AddKnowledge(id)
    \/ nOps < MaxKnowledgeEvents /\ \E id \in KnowledgeIds : DeleteKnowledge(id)
    \/ InitializeSync("A")
    \/ SyncTimerFire("A")
    \/ EchoStorageReady
    \/ OpenDB
    \/ WaiterResume
    \/ TxComplete
    \/ SaveTimerFire

SpecKnowledge == InitKnowledge /\ [][NextKnowledge]_vars

\* ----------------------------------------------- HistoryMessage, ChatHistory
\* ChatHistory = new Echo({}, {name: "history", sync: true}): a localStorage
\* store whose value maps a chat id to its ChatHistoryItem.  The model
\* follows one HistoryMessage object (handle) of the application
HistoryIds == {"h1", "h2"}

Bots == {"bot1", "bot2"}

\* the content of the system message
Systems == {"", "sys"}

MsgA == << <<"content", "a">> >>

MsgB == << <<"content", "b">> >>

\* the Message[] arguments of setList and push
MessageLists == {<<>>, <<MsgA>>, <<MsgB>>}

\* the Partial<Message> arguments of updateLastMessage
Partials == { << <<"content", "b">> >>, << <<"type", "done">> >> }

ChatHistoryItem(id, bot, system, list) ==
    [id |-> id, bot |-> bot, system |-> system, list |-> list]

\* the chat histories a record of an earlier run, or a peer's update, holds
SavedHistory == << <<"h1", ChatHistoryItem("h1", "bot1", "", <<MsgA>>)>> >>

PeerHistories == { <<>>, << <<"h1", ChatHistoryItem("h1", "bot1", "", <<MsgB>>)>> >> }

\* list.slice(0, -1)
Front(list) == SubSeq(list, 1, Len(list) - 1)

InitHistory ==
    /\ InitCommon
    /\ retry = NoRetry
    /\ storageType = "localStorage"
    /\ syncInit = [c \in Contexts |-> "scheduled"]
    /\ \E pr \in {<<>>, <<SavedHistory>>} :
        LET cur == IF pr = <<>> THEN <<>> ELSE persistMerge(pr[1], <<>>)
        IN /\ current = [c \in Contexts |-> cur]
           /\ lsRecord \in {pr, <<cur>>}
           /\ log = NoLog(pr, <<"state">>)
    /\ waiters = <<>>
    /\ record = <<>>
    /\ hyd = "done"

\* broadcastState, called by the set that is being made, schedules a new
\* timer, which captures the store's new state
Recaptured ==
    /\ channel["A"]
    /\ SyncOption
    /\ getStateHash(current'["A"]) # lastSyncHash["A"]

\* the pending broadcast timer's slot after an updater assigned, in place,
\* the fields of e to the entry object of id: the state the timer captured
\* holds the same object
Aliased(pending, id, e) ==
    IF pending # <<>> /\ ~detached /\ id \in ObjKeys(pending[1].state)
    THEN <<[pending[1] EXCEPT !.state = PutKey(@, id, e)]>>
    ELSE pending

mutatorThrows_never(state, id) == FALSE

\* newState[this.id].field = ... where newState has no entry under this.id:
\* a TypeError, thrown by the updater inside store.setState
mutatorThrows(state, id) == id \notin ObjKeys(state)

\* newState[this.id], the object the updater assigns to
entryFor(state, h) ==
    IF h.id \in ObjKeys(state) THEN ValueOf(state, h.id) ELSE h

\* the second half of the mutators of HistoryMessage, which the method
\* reaches with its fields as in h:
\*   ChatHistory.set((prev) => { const newState = {...prev};
\*                               newState[this.id].field = val;
\*                               return newState })
HistorySet(f, h, field, val) ==
    LET prev == current["A"]
    IN /\ handle' = <<h>>
       /\ IF mutatorThrows(prev, h.id)
          THEN /\ lastStep' = [Step("set", "A", prev, <<>>, FALSE,
                                    <<>>, <<>>, <<>>, <<>>)
                                 EXCEPT !.updater = f, !.throws = TRUE, !.key = h.id]
               /\ CallHistory("set", "A", <<>>, FALSE)
               /\ UNCHANGED <<storageType, syncVars, lsRecord, idbVars, saveTimeout,
                              envCount, winSet, winCommit, log, detached>>
          ELSE LET e == [entryFor(prev, h) EXCEPT ![field] = val]
               IN /\ SetCall("A", PutKey(prev, h.id, e), FALSE, f, h.id,
                             Aliased(syncTimeout["A"], h.id, e))
                  /\ detached' = IF Recaptured THEN FALSE ELSE detached
       /\ UNCHANGED <<chats, retry>>

\* HistoryMessage.create(system, bot), with id = gen.id()
Create(id, system, bot) ==
    /\ handle = <<>>
    /\ id \notin ObjKeys(current["A"])
    /\ LET history == ChatHistoryItem(id, bot, system, <<>>)
       IN /\ SetCall("A", << <<id, history>> >>, FALSE, "create", id, syncTimeout["A"])
          /\ handle' = <<history>>
    /\ detached' = IF Recaptured THEN FALSE ELSE detached
    /\ UNCHANGED <<chats, retry>>

\* HistoryMessage.getHistory(id) of a chat the store holds
GetHistory(id) ==
    /\ handle = <<>>
    /\ id \in ObjKeys(current["A"])
    /\ handle' = <<ValueOf(current["A"], id)>>
    /\ lastStep' = Internal
    /\ UNCHANGED <<storageType, syncVars, lsRecord, idbVars, saveTimeout, nOps,
                   onlySets, scenarioC, envCount, winSet, winCommit, log,
                   detached, chats, retry>>

\* HistoryMessage.setBot(bot)
SetBot(bot) ==
    /\ handle # <<>>
    /\ HistorySet("setBot", [handle[1] EXCEPT !.bot = bot], "bot", bot)

\* HistoryMessage.setSystem(system)
SetSystem(system) ==
    /\ handle # <<>>
    /\ HistorySet("setSystem", [handle[1] EXCEPT !.system = system], "system", system)

\* HistoryMessage.setList(list)
SetList(list) ==
    /\ handle # <<>>
    /\ HistorySet("setList", [handle[1] EXCEPT !.list = list], "list", list)

\* HistoryMessage.push(message)
Push(message) ==
    /\ handle # <<>>
    /\ LET list == handle[1].list \o message
       IN HistorySet("push", [handle[1] EXCEPT !.list = list], "list", list)

\* HistoryMessage.updateLastMessage(msg) on a list that is not empty
UpdateLastMessage(msg) ==
    /\ handle # <<>>
    /\ handle[1].list # <<>>
    /\ LET list == handle[1].list
           updatedMessage == ObjectAssign(list[Len(list)], msg)
           updated == Append(Front(list), updatedMessage)
       IN HistorySet("updateLastMessage", [handle[1] EXCEPT !.list = updated],
                     "list", updated)

\* HistoryMessage.clear()
Clear ==
    /\ handle # <<>>
    /\ HistorySet("clear", [handle[1] EXCEPT !.list = <<>>], "list", <<>>)

\* HistoryMessage.removeLast() on a list that is not empty
RemoveLast ==
    /\ handle # <<>>
    /\ handle[1].list # <<>>
    /\ LET list == Front(handle[1].list)
       IN HistorySet("removeLast", [handle[1] EXCEPT !.list = list], "list", list)

\* HistoryMessage.replaceLastMessage(message) on a list that is not empty:
\* this.list is read and not assigned
ReplaceLastMessage(message) ==
    /\ handle # <<>>
    /\ handle[1].list # <<>>
    /\ HistorySet("replaceLastMessage", handle[1], "list",
                  Append(Front(handle[1].list), message))

\* HistoryMessage.clearAll()
ClearAll ==
    /\ SetCall("A", <<>>, TRUE, "clearAll", "", syncTimeout["A"])
    /\ detached' = IF Recaptured THEN FALSE ELSE detached
    /\ UNCHANGED <<handle, chats, retry>>

\* HistoryMessage.deleteHistory(id)
DeleteHistory(id) ==
    /\ SetCall("A", DeleteKey(current["A"], id), TRUE, "deleteHistory", id,
               syncTimeout["A"])
    /\ detached' = IF Recaptured THEN FALSE ELSE detached
    /\ UNCHANGED <<handle, chats, retry>>

\* ChatHistory's channel.onmessage: a peer's update replaces the state, and
\* its entry objects, by the message's copy
HistoryDeliver ==
    /\ Dispatch("A")
    /\ detached' = IF lastStep'.kind = "apply" THEN TRUE ELSE detached
    /\ UNCHANGED <<handle, chats, retry>>

MaxHistoryEvents == 2       \* calls that write ChatHistory, and peers' updates

HistoryEvents == nOps + envCount

NextHistory ==
    \/ HistoryEvents < MaxHistoryEvents
       /\ \E id \in HistoryIds, sys \in Systems, bot \in Bots : Create(id, sys, bot)
    \/ \E id \in HistoryIds : GetHistory(id)
    \/ HistoryEvents < MaxHistoryEvents /\ \E bot \in Bots : SetBot(bot)
    \/ HistoryEvents < MaxHistoryEvents /\ \E sys \in Systems : SetSystem(sys)
    \/ HistoryEvents < MaxHistoryEvents /\ \E list \in MessageLists : SetList(list)
    \/ HistoryEvents < MaxHistoryEvents /\ \E m \in MessageLists \ {<<>>} : Push(m)
    \/ HistoryEvents < MaxHistoryEvents /\ \E p \in Partials : UpdateLastMessage(p)
    \/ HistoryEvents < MaxHistoryEvents /\ \E m \in {MsgA, MsgB} : ReplaceLastMessage(m)
    \/ HistoryEvents < MaxHistoryEvents /\ RemoveLast
    \/ HistoryEvents < MaxHistoryEvents /\ Clear
    \/ HistoryEvents < MaxHistoryEvents /\ ClearAll
    \/ HistoryEvents < MaxHistoryEvents /\ \E id \in HistoryIds : DeleteHistory(id)
    \/ HistoryEvents < MaxHistoryEvents
       /\ \E s \in PeerHistories : EnvPost(Envelope(s))
    \/ HistoryDeliver
    \/ InitializeSync("A")
    \/ SyncTimerFire("A")

SpecHistory == InitHistory /\ [][NextHistory]_vars

\* ----------------------------------------------------------------------- Bot
\* Bot.loading = new Echo({status: false}): a store without options, so
\* with no name, no persistence and no sync
Loading(status) == << <<"status", status>> >>

InitBot ==
    /\ InitCommon
    /\ retry = NoRetry
    /\ storageType = "none"
    /\ syncInit = [c \in Contexts |-> "done"]
    /\ current = [c \in Contexts |-> Loading("false")]
    /\ lsRecord = <<>>
    /\ log = NoLog(<<>>, <<>>)
    /\ waiters = <<>>
    /\ record = <<>>
    /\ hyd = "done"

MaxChats == 3               \* Bot.chat calls made

\* the chat calls that have set the flag and have not settled
InFlight == { i \in 1..Len(chats) : chats[i] \in {"stream", "tool"} }

\* Bot.chat(input) up to its first await:
\*   this.loading.set({status: true}); await this.model.stream(input)
ChatStart ==
    /\ Len(chats) < MaxChats
    /\ SetCall("A", Loading("true"), FALSE, "none", "", syncTimeout["A"])
    /\ chats' = Append(chats, "stream")
    /\ UNCHANGED <<handle, detached, retry>>

\* the finally block of chat call i, which then settles as outcome:
\*   this.loading.set({status: false})
ChatSettle(i, outcome) ==
    /\ SetCall("A", Loading("false"), FALSE, "none", "", syncTimeout["A"])
    /\ chats' = [chats EXCEPT ![i] = outcome]
    /\ UNCHANGED <<handle, detached, retry>>

\* the first stream of call i resolves with response.tool set: the call
\* goes on to await the second stream
StreamTool(i) ==
    /\ chats[i] = "stream"
    /\ chats' = [chats EXCEPT ![i] = "tool"]
    /\ lastStep' = Internal
    /\ UNCHANGED <<storageType, syncVars, lsRecord, idbVars, saveTimeout, nOps,
                   onlySets, scenarioC, envCount, winSet, winCommit, log,
                   handle, detached, retry>>

\* the stream call i awaits resolves and nothing is left to await
StreamResolves(i) ==
    /\ i \in InFlight
    /\ ChatSettle(i, "resolved")

\* the stream call i awaits rejects: catch logs and rethrows
StreamRejects(i) ==
    /\ i \in InFlight
    /\ ChatSettle(i, "rejected")

NextBot ==
    \/ ChatStart
    \/ \E i \in 1..Len(chats) : StreamTool(i)
    \/ \E i \in 1..Len(chats) : StreamResolves(i)
    \/ \E i \in 1..Len(chats) : StreamRejects(i)

SpecBot == InitBot /\ [][NextBot]_vars

\* ------------------------------------------------- Echo.saveStateWithRetry
\* the call saveStateWithRetry(state, storage, name), retryCount defaulting
\* to 0, under a backend that may fail any write.  retry.phase is where the
\* call is: "setItem" (the attempt is awaited), "timer" (the RETRY_DELAY
\* timer of the catch block is pending), "done" (an attempt resolved),
\* "stopped" (the catch block scheduled nothing); retry.attempts counts the
\* setItem calls made
RetryStates == SetArgs \cup EnvStates \cup {DefaultValue}

InitRetry ==
    /\ InitCommon
    /\ storageType = "indexedDB"
    /\ syncInit = [c \in Contexts |-> "scheduled"]
    /\ current = [c \in Contexts |-> DefaultValue]
    /\ lsRecord = <<>>
    /\ waiters = <<>>
    /\ record \in {<<>>} \cup {<<s>> : s \in SavedStates}
    /\ hyd = "done"
    /\ log = NoLog(record, <<>>)
    /\ \E s \in RetryStates :
         retry = [state |-> s, retryCount |-> 0, phase |-> "setItem", attempts |-> 1]

shouldRetry_inclusive(retryCount) == retryCount <= MAX_RETRY_COUNT

\* the test of the catch block: retryCount < Echo.MAX_RETRY_COUNT
shouldRetry(retryCount) == retryCount < MAX_RETRY_COUNT

\* what a step of the call leaves alone
RetryFrame ==
    UNCHANGED <<storageType, syncVars, lsRecord, echoDB, waiters, txQueue, hyd,
                lastSavedState, saveTimeout, nOps, onlySets, scenarioC, envCount,
                winSet, winCommit, handle, detached, chats>>

\* await storage.setItem(name, state) resolves: waitForDB found or opened
\* the database and the put request succeeded
SetItemResolves ==
    /\ retry.phase = "setItem"
    /\ db' = TRUE
    /\ record' = <<retry.state>>
    /\ retry' = [retry EXCEPT !.phase = "done"]
    /\ lastStep' = [Internal EXCEPT !.kind = "retryDone", !.writes = <<retry.state>>]
    /\ UNCHANGED log
    /\ RetryFrame

\* await storage.setItem(name, state) rejects: the open request of
\* waitForDB failed, or it succeeded (or the database was open) and the put
\* request failed.  The catch block logs and, if the test allows, sets the
\* RETRY_DELAY timer
SetItemRejects ==
    /\ retry.phase = "setItem"
    /\ \E opened \in {db, TRUE} : db' = opened
    /\ retry' = [retry EXCEPT !.phase = IF shouldRetry(retry.retryCount)
                                        THEN "timer" ELSE "stopped"]
    /\ log' = [log EXCEPT !.failures = @ + 1]
    /\ lastStep' = [Internal EXCEPT !.kind = "retryFailed", !.arg = retry.state]
    /\ UNCHANGED record
    /\ RetryFrame

\* the RETRY_DELAY timer fires:
\*   this.saveStateWithRetry(state, storage, name, retryCount + 1)
RetryTimerFire ==
    /\ retry.phase = "timer"
    /\ retry' = [retry EXCEPT !.phase = "setItem", !.retryCount = @ + 1,
                              !.attempts = @ + 1]
    /\ lastStep' = [Internal EXCEPT !.kind = "retryAttempt", !.arg = retry.state]
    /\ UNCHANGED <<db, record, log>>
    /\ RetryFrame

NextRetry ==
    \/ SetItemResolves
    \/ SetItemRejects
    \/ RetryTimerFire

SpecRetry == InitRetry /\ [][NextRetry]_vars

\* ---------------------------------------------------------------- claims
\* no broadcast timer pending, no envelope in flight, no deferred update,
\* every deferred initializeSync done
Quiescent ==
    \A c \in Contexts :
        /\ syncInit[c] = "done"
        /\ syncTimeout[c] = <<>>
        /\ inbox[c] = <<>>
        /\ deferred[c] = <<>>

\* n is the shallow merge of p into s
IsShallowMerge(n, s, p) ==
    /\ ObjKeys(n) = ObjKeys(s) \cup ObjKeys(p)
    /\ \A k \in ObjKeys(p) : ValueOf(n, k) = ValueOf(p, k)
    /\ \A k \in ObjKeys(s) \ ObjKeys(p) : ValueOf(n, k) = ValueOf(s, k)

\* C1 (read-your-write): in the state right after Echo.set(v, replace)
\* returned, whatever timers are pending and envelopes are in flight,
\* current equals v when replace is true and the shallow merge of the
\* previous value with v when it is false.
C1_ReadYourWrite ==
    lastStep.kind = "set" =>
        IF lastStep.replace
        THEN SameValue(current[lastStep.ctx], lastStep.arg)
        ELSE IsShallowMerge(current[lastStep.ctx], lastStep.old, lastStep.arg)

\* a merging set that added a key, made while a broadcast timer is pending
\* and an envelope of the peer is still in flight to this context
C1_Witness ==
    /\ lastStep.kind = "set"
    /\ ~lastStep.replace
    /\ ObjKeys(lastStep.arg) \ ObjKeys(lastStep.old) # {}
    /\ ObjKeys(lastStep.old) \ ObjKeys(lastStep.arg) # {}
    /\ syncTimeout[lastStep.ctx] # <<>>
    /\ inbox[lastStep.ctx] # <<>>

\* C2 (loop suppression): the step in which a context applies an inbound
\* state-update posts nothing to any peer and leaves that context's
\* broadcast timer slot as it was, so no timer firing later posts on behalf
\* of the application.
C2_LoopSuppression ==
    [][lastStep'.kind \in {"apply", "applyDeferred"} =>
          /\ syncTimeout'[lastStep'.ctx] = syncTimeout[lastStep'.ctx]
          /\ lastStep'.posts = <<>>
          /\ \A d \in Contexts \ {lastStep'.ctx} : inbox'[d] = inbox[d]]_vars

\* an inbound update was applied and changed the value, and no broadcast is
\* pending at the receiver
C2_Witness ==
    /\ lastStep.kind = "apply"
    /\ current[lastStep.ctx] = lastStep.arg
    /\ ~SameValue(lastStep.old, lastStep.arg)
    /\ syncTimeout[lastStep.ctx] = <<>>

\* C3 (eventual consistency): after set calls on either context, once every
\* timer has fired and every envelope has been delivered and handled, both
\* contexts hold the same value.
C3_EventualConsistency ==
    (onlySets /\ Quiescent) => SameValue(current["A"], current["B"])

\* C4 (two-context propagation): both channels open, a single set({y:2}) on
\* A and nothing else; once the timers have fired and the envelopes are
\* handled, B's value equals A's.
C4_TwoContextPropagation ==
    (scenarioC = "set" /\ Quiescent) => SameValue(current["A"], current["B"])

\* C5 (broadcast coalescing): when the broadcast timer fires after set calls
\* made since it last fired, exactly one envelope is posted and it carries
\* the value committed by the newest of those set calls.
C5_BroadcastCoalescing ==
    (lastStep.kind = "syncTimer" /\ lastStep.win # <<>>) =>
        lastStep.posts = lastStep.win

\* C8 (onChange once per call): set, delete and reset each invoke onChange
\* exactly once, with (value after, value before), current being the new
\* value at that time.
C8_OnChangeOncePerCall ==
    lastStep.kind \in {"set", "delete", "reset"} =>
        lastStep.onChange = <<[new |-> current[lastStep.ctx],
                               old |-> lastStep.old,
                               cur |-> current[lastStep.ctx]]>>

\* C9 (onChange of an inbound update): onChange gets (envelope state, value
\* held immediately before the update was applied).
C9_InboundOnChangeArgs ==
    lastStep.kind \in {"apply", "applyDeferred"} =>
        /\ Len(lastStep.onChange) = 1
        /\ lastStep.onChange[1].new = lastStep.arg
        /\ lastStep.onChange[1].old = lastStep.old

\* C10 (inbound application): when a well-formed envelope is dispatched to
\* the handler and its state hash differs from lastSyncHash, current becomes
\* exactly the envelope's state and lastSyncHash its hash (at once for a
\* localStorage store; for an indexedDB store the application is queued
\* behind SYNC_DELAY and has this effect when it runs); when the hash
\* equals lastSyncHash, current and lastSyncHash stay and onChange is not
\* invoked.
C10_InboundApplication ==
    [][\A c \in Contexts :
        /\ Len(inbox'[c]) < Len(inbox[c]) =>
             LET s == Head(inbox[c]).state
             IN IF getStateHash(s) # lastSyncHash[c]
                THEN IF storageType = "indexedDB"
                     THEN deferred'[c] = Append(deferred[c], s)
                     ELSE /\ current'[c] = s
                          /\ lastSyncHash'[c] = getStateHash(s)
                ELSE /\ current'[c] = current[c]
                     /\ lastSyncHash'[c] = lastSyncHash[c]
                     /\ deferred'[c] = deferred[c]
                     /\ lastStep'.onChange = <<>>
        /\ Len(deferred'[c]) < Len(deferred[c]) =>
             /\ current'[c] = Head(deferred[c])
             /\ lastSyncHash'[c] = getStateHash(Head(deferred[c]))]_vars

\* a deferred inbound update was applied to a value that had a key the
\* envelope's state lacks: the key is gone
C10_Witness ==
    /\ lastStep.kind = "applyDeferred"
    /\ current[lastStep.ctx] = lastStep.arg
    /\ lastSyncHash[lastStep.ctx] = getStateHash(lastStep.arg)
    /\ ObjKeys(lastStep.old) \ ObjKeys(lastStep.arg) # {}

\* C6 as stated (persistence coalescing): when the save timer fires after
\* N >= 1 commits, exactly one setItem is issued and it carries the value
\* of the newest commit.
C6_PersistCoalescing ==
    lastStep.kind = "saveTimer" =>
        lastStep.writes = <<lastStep.win[Len(lastStep.win)]>>

\* C6 as amended: when the save timer fires after N >= 1 commits, the
\* middleware issues setItem for the value of the newest commit, and only
\* for it, unless the JSON text of that value equals lastSavedState, in
\* which case it issues no setItem at all.
C6_PersistCoalescingAmended ==
    [][(saveTimeout # <<>> /\ saveTimeout' = <<>>) =>
          LET v == winCommit[Len(winCommit)]
              issued == IF db THEN SubSeq(txQueue', Len(txQueue) + 1, Len(txQueue'))
                              ELSE SubSeq(waiters', Len(waiters) + 1, Len(waiters'))
          IN /\ winCommit # <<>>
             /\ issued = IF getStateHash(v) = lastSavedState
                         THEN <<>>
                         ELSE <<StorageOp("set", <<v>>, "save")>>]_vars

\* the save timer fired after three commits of three different values and
\* one setItem, for the newest, was issued
C6_Witness ==
    /\ lastStep.kind = "saveTimer"
    /\ Len(lastStep.win) >= 3
    /\ lastStep.win[1] # lastStep.win[Len(lastStep.win)]
    /\ lastStep.win[2] # lastStep.win[Len(lastStep.win)]
    /\ lastStep.writes = <<lastStep.win[Len(lastStep.win)]>>

\* C7 (durability at quiescence): an indexedDB store whose backend never
\* fails; once hydration has completed, the save timer has fired and no
\* storage operation is outstanding, the persisted record equals current.
C7_Durability ==
    ( /\ storageType = "indexedDB"
      /\ hyd = "done"
      /\ saveTimeout = <<>>
      /\ waiters = <<>>
      /\ txQueue = <<>> )
    => (record # <<>> /\ SameValue(record[1], current["A"]))

\* the shape of a state-update envelope: an object with type "state-update"
\* and own fields state and timestamp
IsStateUpdateEnvelope(data) ==
    /\ "primitive" \notin DOMAIN data
    /\ "type" \in DOMAIN data
    /\ data.type = "state-update"
    /\ "state" \in DOMAIN data
    /\ "timestamp" \in DOMAIN data

\* C11 (malformed envelopes are ignored): when a message that is not a
\* state-update envelope is dispatched to the handler, the receiver's
\* current value, lastSyncHash, pending broadcast, deferral and save timers
\* and the persisted record with the operations queued on it are unchanged,
\* onChange is not invoked and no exception leaves the handler.
C11_MalformedIgnored ==
    [][\A c \in Contexts :
        (Len(inbox'[c]) < Len(inbox[c]) /\ ~IsStateUpdateEnvelope(Head(inbox[c]))) =>
            /\ current' = current
            /\ lastSyncHash' = lastSyncHash
            /\ syncTimeout' = syncTimeout
            /\ deferred' = deferred
            /\ saveTimeout' = saveTimeout
            /\ record' = record
            /\ lsRecord' = lsRecord
            /\ txQueue' = txQueue
            /\ waiters' = waiters
            /\ lastStep'.onChange = <<>>
            /\ ~lastStep'.throws]_vars

\* a message was ignored by a store that knows no hash yet (so not for its
\* hash) while its broadcast timer and its save timer are pending
C11_Witness ==
    /\ lastStep.kind = "ignore"
    /\ lastSyncHash[lastStep.ctx] = NoHash
    /\ syncTimeout[lastStep.ctx] # <<>>
    /\ saveTimeout # <<>>

\* C12 (hydration is a full replace, for every storage kind): a record p
\* was persisted before construction; when hydration has completed (inside
\* the constructor for localStorage, at the step that loads the record for
\* indexedDB) and no set, delete or reset was made, current equals p
\* exactly: a field that only the default value has is absent.
C12_HydrationFullReplace ==
    ( /\ log.prior # <<>>
      /\ nOps = 0
      /\ hyd = "done"
      /\ lastStep.kind \in {"init", "hydrate"} )
    => SameValue(current["A"], log.prior[1])

\* C13 (hydration with no prior record): an indexedDB store constructed
\* over no record, with no set, delete or reset made; when the step that
\* completes hydration (the end of the seed write) has been taken, the
\* persisted record equals the default value, current is still the default
\* value and the rehydrate notification has been invoked exactly once,
\* with null.
C13_HydrationNoRecord ==
    [][( /\ hyd = "seed"
         /\ hyd' = "done"
         /\ log.prior = <<>>
         /\ nOps = 0 )
       => /\ record' = <<DefaultValue>>
          /\ current'["A"] = DefaultValue
          /\ log'.rehydrated = <<"null">>]_vars

\* no save timer pending and no storage operation outstanding, hydration over
StorageQuiet ==
    /\ hyd = "done"
    /\ saveTimeout = <<>>
    /\ waiters = <<>>
    /\ txQueue = <<>>

\* C14 (overwrite on hydrate): a record p is persisted and set(v) is
\* called after construction, before hydration completes.  At the step
\* that completes hydration current becomes p; and when that set was the
\* only call and no peer posted anything, once the save debounce and the
\* storage operations have settled the persisted record is not the value
\* that set committed.
C14_OverwriteOnHydrate ==
    ( /\ storageType = "indexedDB"
      /\ log.prior # <<>>
      /\ log.earlySet # <<>>
      /\ ~SameValue(log.earlySet[1], log.prior[1]) )
    => /\ lastStep.kind = "hydrate" => SameValue(current["A"], log.prior[1])
       /\ (StorageQuiet /\ nOps = 1 /\ envCount = 0 /\ record # <<>>) =>
              ~SameValue(record[1], log.earlySet[1])

\* C15 (inbound application waits for hydration): an indexedDB store
\* applies an inbound update only when its hydration (the database open
\* and the initial getItem, with the seed write if there is no record) is
\* over.
C15_InboundAfterHydration ==
    (storageType = "indexedDB" /\ lastStep.kind \in {"apply", "applyDeferred"})
        => hyd = "done"

\* C16 (reset independence): in the state right after Echo.reset()
\* returned, whatever calls came before and whatever record is persisted,
\* current is exactly the default value handed to the constructor.
C16_ResetIndependence ==
    lastStep.kind = "reset" => current[lastStep.ctx] = DefaultValue

\* a reset of a store that was constructed over a persisted record and
\* held a key the default value lacks, while a record other than the
\* default value is persisted
C16_Witness ==
    /\ lastStep.kind = "reset"
    /\ log.prior # <<>>
    /\ ObjKeys(lastStep.old) \ ObjKeys(DefaultValue) # {}
    /\ current[lastStep.ctx] = DefaultValue
    /\ \/ (storageType = "indexedDB" /\ record # <<>> /\ record # <<DefaultValue>>)
       \/ (storageType = "localStorage" /\ log.prior[1] # DefaultValue)

\* C17 (delete removes exactly one field): in the state right after
\* Echo.delete(k) returned, current has no key k and has every other key
\* of the previous value with its previous value; when k was absent the
\* fields are those of the previous value.
C17_DeleteOneField ==
    lastStep.kind = "delete" =>
        LET k == lastStep.arg[1][1]
            cur == current[lastStep.ctx]
        IN /\ k \notin ObjKeys(cur)
           /\ ObjKeys(cur) = ObjKeys(lastStep.old) \ {k}
           /\ \A j \in ObjKeys(cur) : ValueOf(cur, j) = ValueOf(lastStep.old, j)

\* a key was deleted from a value that held it and another key, which stays
C17_Witness ==
    /\ lastStep.kind = "delete"
    /\ lastStep.arg[1][1] \in ObjKeys(lastStep.old)
    /\ ObjKeys(lastStep.old) \ {lastStep.arg[1][1]} # {}
    /\ ObjKeys(current[lastStep.ctx]) = ObjKeys(lastStep.old) \ {lastStep.arg[1][1]}

\* C18 (merge semantics of a non-replace set): in the state right after
\* set(p) or set(updater) with replace = false returned, p being the
\* object given or the object the updater returned for the previous value
\* s, current has exactly the keys of s and of p, p's value for every key
\* of p and s's value for every other key; no key of s is gone.
C18_MergeSemantics ==
    (lastStep.kind = "set" /\ ~lastStep.replace) =>
        LET cur == current[lastStep.ctx]
            s == lastStep.old
            p == lastStep.arg
        IN /\ ObjKeys(cur) = ObjKeys(s) \cup ObjKeys(p)
           /\ \A k \in ObjKeys(p) : ValueOf(cur, k) = ValueOf(p, k)
           /\ \A k \in ObjKeys(s) \ ObjKeys(p) : ValueOf(cur, k) = ValueOf(s, k)
           /\ ObjKeys(s) \subseteq ObjKeys(cur)

\* a non-replace set whose updater returned an object without the key x
\* that the previous value held: x is still there, with its value
C18_Witness ==
    /\ lastStep.kind = "set"
    /\ ~lastStep.replace
    /\ lastStep.updater = "dropX"
    /\ lastStep.arg # <<>>
    /\ "x" \in ObjKeys(lastStep.old)
    /\ "x" \notin ObjKeys(lastStep.arg)
    /\ "x" \in ObjKeys(current[lastStep.ctx])
    /\ ValueOf(current[lastStep.ctx], "x") = ValueOf(lastStep.old, "x")

\* C19 (a storage write failure is contained, for every storage kind): in
\* the state right after a set call returned, whether or not the write it
\* caused fails, no exception left set, current is the new value, onChange
\* was invoked once and, with the channel open and a hash other than
\* lastSyncHash, the broadcast of the new value is scheduled.
C19_WriteFailureContained ==
    lastStep.kind = "set" =>
        LET c == lastStep.ctx
            new == setState(lastStep.old, lastStep.arg, lastStep.replace)
        IN /\ ~lastStep.throws
           /\ current[c] = new
           /\ Len(lastStep.onChange) = 1
           /\ (channel[c] /\ getStateHash(new) # lastSyncHash[c]) =>
                 syncTimeout[c] = <<[state |-> new, hash |-> getStateHash(new)]>>

\* C20 (bounded retry of persistence): a debounced write that fails is
\* attempted again without a further commit, as long as the backend has
\* failed no more than MAX_RETRY_COUNT writes.  So when such a write has
\* just failed and its value is not the persisted record, something that
\* will write it is left: the state is not one with no save timer pending
\* and no storage operation outstanding.
C20_BoundedRetry ==
    ( /\ lastStep.kind = "writeFailed"
      /\ log.failures \in 1..MAX_RETRY_COUNT
      /\ saveTimeout = <<>>
      /\ waiters = <<>>
      /\ txQueue = <<>> )
    => record = <<lastStep.arg>>

\* C21 (degraded mode on initialization failure): when the open awaited by
\* the hydration, or its read, fails, the step leaves current as it was
\* (the default value, or what the calls made so far committed) and makes
\* one rehydrate notification, with null; and every set, delete and reset
\* made after the failure returns normally with its value committed.
C21_DegradedMode ==
    [][/\ lastStep'.kind = "hydrateFailed" =>
             /\ current' = current
             /\ log'.rehydrated = Append(log.rehydrated, "null")
             /\ nOps = 0 /\ envCount = 0 => current'["A"] = DefaultValue
       /\ (hyd' = "failed" /\ lastStep'.kind \in {"set", "delete", "reset"}) =>
             /\ ~lastStep'.throws
             /\ lastStep'.kind = "set" =>
                   IF lastStep'.replace
                   THEN SameValue(current'["A"], lastStep'.arg)
                   ELSE IsShallowMerge(current'["A"], lastStep'.old, lastStep'.arg)
             /\ lastStep'.kind = "delete" =>
                   current'["A"] = DeleteKey(lastStep'.old, lastStep'.arg[1][1])
             /\ lastStep'.kind = "reset" => current'["A"] = DefaultValue]_vars

\* the database could not be opened, the hydration ended in the catch with
\* one null notification, and a set made afterwards changed the value
C21_Witness ==
    /\ storageType = "indexedDB"
    /\ hyd = "failed"
    /\ ~db
    /\ log.rehydrated = <<"null">>
    /\ lastStep.kind = "set"
    /\ lastStep.old = DefaultValue
    /\ current["A"] # DefaultValue

\* C22 (enable is idempotent): whatever sync(true) and sync(false) calls
\* are interleaved with the constructor's deferred initializeSync and with
\* the wait for storage, a store has at most one open BroadcastChannel,
\* the one this.channel references: it has opened no channel that it no
\* longer references and never closed.
C22_SingleChannel ==
    \A c \in Contexts : bcast[c].orphans = 0

\* C23 (disable starts clean): while the store has no channel, before sync
\* is first enabled and from a sync(false) to the next opening of a channel,
\* lastSyncHash is null, also when a broadcast timer was pending when
\* sync(false) was called.
C23_DisableStartsClean ==
    \A c \in Contexts : ~channel[c] => lastSyncHash[c] = NoHash

\* C24 (sync requires a name): in every state of a store constructed
\* without a name, with or without the sync option and whatever sync calls
\* were made, the store has no channel, open or orphaned, no broadcast
\* pending, has posted nothing and has applied no inbound update.
C24_SyncRequiresName ==
    storageType = "none" =>
        \A c \in Contexts :
            /\ ~channel[c]
            /\ bcast[c] = [orphans |-> 0, awaiting |-> 0, to |-> <<>>]
            /\ syncTimeout[c] = <<>>
            /\ inbox[c] = <<>>
            /\ deferred[c] = <<>>
            /\ lastSyncHash[c] = NoHash
            /\ lastStep.posts = <<>>
            /\ lastStep.kind \notin {"apply", "applyDeferred", "defer"}

\* a store constructed with the sync option and no name: its deferred
\* initializeSync has run, a value was set, and sync(true) was just called
C24_Witness ==
    /\ storageType = "none"
    /\ syncInit["A"] = "done"
    /\ log.warned
    /\ nOps > 0
    /\ lastStep.kind = "sync"
    /\ lastStep.replace

\* C25 (configuration error at construction): a store constructed with
\* sync = true and no name has reported the error by the time the
\* constructor returns, before its deferred initializeSync step runs.
C25_ErrorAtConstruction ==
    (storageType = "none" /\ syncInit["A"] = "scheduled") => log.warned

\* C26 (an unnamed store never touches storage): in every state of a store
\* constructed without a name, after any set, delete, reset and beforeunload
\* event, no database was opened, no storage operation is waiting or in a
\* transaction, nothing was written to either backend and no save is
\* pending; and right after a set, delete or reset current is the value
\* the call committed.
C26_UnnamedNoStorage ==
    storageType = "none" =>
        /\ ~db /\ ~echoDB
        /\ waiters = <<>> /\ txQueue = <<>>
        /\ record = <<>> /\ lsRecord = <<>>
        /\ saveTimeout = <<>>
        /\ lastStep.writes = <<>>
        /\ lastStep.kind = "set" =>
              IF lastStep.replace
              THEN SameValue(current["A"], lastStep.arg)
              ELSE IsShallowMerge(current["A"], lastStep.old, lastStep.arg)
        /\ lastStep.kind = "delete" =>
              current["A"] = DeleteKey(lastStep.old, lastStep.arg[1][1])
        /\ lastStep.kind = "reset" => current["A"] = DefaultValue

\* the beforeunload listener just ran on an unnamed store whose value two
\* calls have changed
C26_Witness ==
    /\ storageType = "none"
    /\ lastStep.kind = "beforeunload"
    /\ nOps = 2
    /\ current["A"] # DefaultValue

\* C27 (inbound updates in arrival order): when a well-formed envelope m2
\* is dispatched to the handler right after an envelope m1 of another state
\* hash, it is applied after m1: on a localStorage store, where m1 was
\* applied at once, current and lastSyncHash become m2's; on an indexedDB
\* store, where m1 is still waiting in its SYNC_DELAY timeout, m2 is queued
\* behind m1, so that it is the last one applied.
C27_ArrivalOrder ==
    [][\A c \in Contexts :
        (lastStep'.kind \in {"apply", "defer", "ignore"} /\ lastStep'.ctx = c) =>
            LET m2 == Head(inbox[c]).state
            IN /\ ( /\ storageType = "localStorage"
                    /\ lastStep.kind = "apply" /\ lastStep.ctx = c
                    /\ getStateHash(lastStep.arg) # getStateHash(m2) ) =>
                       /\ current'[c] = m2
                       /\ lastSyncHash'[c] = getStateHash(m2)
               /\ ( /\ storageType = "indexedDB"
                    /\ deferred[c] # <<>>
                    /\ getStateHash(deferred[c][Len(deferred[c])]) # getStateHash(m2) ) =>
                       deferred'[c] = Append(deferred[c], m2)]_vars

\* C28 (no stale post): whenever the broadcast timer posts an envelope, the
\* envelope's state is the posting context's current value at that moment,
\* whatever happened between the scheduling of the broadcast and the firing
\* of its timer.
C28_NoStalePost ==
    (lastStep.kind = "syncTimer" /\ lastStep.posts # <<>>) =>
        lastStep.posts[1] = current[lastStep.ctx]

\* C29 (reset and delete are propagated): right after a reset() or a
\* delete(k) that changed the value of a store with an open channel, a
\* broadcast of the new value is pending, unless its hash is lastSyncHash.
C29_ResetDeletePropagated ==
    \A c \in Contexts :
        ( /\ lastStep.kind \in {"reset", "delete"}
          /\ lastStep.ctx = c
          /\ channel[c]
          /\ current[c] # lastStep.old
          /\ getStateHash(current[c]) # lastSyncHash[c] ) =>
            /\ syncTimeout[c] # <<>>
            /\ syncTimeout[c][1].state = current[c]

\* C30 (outbound hash skip): whenever the broadcast timer posts an
\* envelope, the hash of the envelope's state differs from the lastSyncHash
\* the context holds at that moment.
C30_OutboundHashSkip ==
    [][\A c \in Contexts :
        (lastStep'.kind = "syncTimer" /\ lastStep'.ctx = c /\ lastStep'.posts # <<>>) =>
            getStateHash(lastStep'.posts[1]) # lastSyncHash[c]]_vars

\* C31 (hydration does not write): an indexedDB store constructed over a
\* persisted record, with no call made and nothing received; no step,
\* neither the hydration's own replace nor a later firing of the save
\* timer, issues a storage write.
C31_HydrationNoWrite ==
    ( /\ storageType = "indexedDB"
      /\ log.prior # <<>>
      /\ nOps = 0
      /\ envCount = 0 )
    => lastStep.writes = <<>>

\* C32 (single-slot debounce): in every state the store has at most one
\* pending save timer and every context at most one pending broadcast
\* timer: scheduling a debounce replaces the pending timer.
C32_SingleSlotDebounce ==
    /\ Len(saveTimeout) <= 1
    /\ \A c \in Contexts : Len(syncTimeout[c]) <= 1

\* a set made while the save timer of an earlier commit and the timer of
\* the initial broadcast were pending: each slot holds one timer, for the
\* value this set committed
C32_Witness ==
    /\ storageType = "indexedDB"
    /\ lastStep.kind = "set"
    /\ channel["A"]
    /\ lastSyncHash["A"] = NoHash
    /\ envCount = 0
    /\ Len(winCommit) >= 2
    /\ saveTimeout = <<current["A"]>>
    /\ Len(syncTimeout["A"]) = 1
    /\ syncTimeout["A"][1].state = current["A"]
    /\ current["A"] # DefaultValue

\* C33 (operations queue behind initialisation): a transaction exists only
\* while the database handle is open; and an operation that was awaiting
\* an open either starts its transaction, with the handle open, or its
\* open failed and the rejection reached the caller's catch, with no
\* transaction started.
C33_QueueBehindInit ==
    [][/\ txQueue' # <<>> => db'
       /\ Len(waiters') < Len(waiters) =>
            \/ /\ db'
               /\ txQueue' = Append(txQueue, Head(waiters))
            \/ /\ txQueue' = txQueue
               /\ log'.failures = log.failures + 1
               /\ lastStep'.kind =
                     IF Head(waiters).by = "hydrate" THEN "hydrateFailed"
                                                     ELSE "writeFailed"]_vars

\* the open awaited by the hydration failed with the database never opened:
\* the hydration ended in its catch and no transaction exists, while a save
\* made since is still awaiting its own open
C33_Witness ==
    /\ lastStep.kind = "hydrateFailed"
    /\ ~db
    /\ txQueue = <<>>
    /\ Len(waiters) = 1
    /\ waiters[1].by = "save"

\* C34 (no inbound application after disable): an inbound update is
\* applied, and onChange invoked for it, only while the store has a
\* channel; an update whose handling began before sync(false) is not
\* applied after it.
C34_NoApplyAfterDisable ==
    lastStep.kind \in {"apply", "applyDeferred"} => channel[lastStep.ctx]

\* C35 (deleteKnowledge removes the entry): in the state right after
\* KnowledgeStore.deleteKnowledge(id) returned, the knowledge store's value
\* has no entry under id and every other entry is as it was before the call.
C35_DeleteKnowledgeRemoves ==
    (lastStep.kind = "set" /\ lastStep.updater = "deleteKnowledge") =>
        /\ lastStep.key \notin ObjKeys(current["A"])
        /\ SameValue(current["A"], DeleteKey(lastStep.old, lastStep.key))

\* C36 (handle/store agreement): for the HistoryMessage handle of an entry
\* the store holds, with no peer update in between, after any sequence of
\* the handle's mutators the handle's list equals ChatHistory.current[id].list
\* (so a message written by replaceLastMessage is still the last stored
\* message after a following push).
C36_HandleStoreAgreement ==
    ( /\ handle # <<>>
      /\ envCount = 0
      /\ handle[1].id \in ObjKeys(current["A"]) )
    => handle[1].list = ValueOf(current["A"], handle[1].id).list

\* C37 (no resurrection through a stale handle): when the store has no entry
\* for the handle's id (deleteHistory, clearAll or a peer's update removed
\* it), a call of setBot, setSystem, setList, push or clear on the handle
\* fails with an error and leaves ChatHistory's value, its record and its
\* pending broadcast as they were: still without an entry for the id.
C37_NoResurrection ==
    [][( /\ handle # <<>>
         /\ handle[1].id \notin ObjKeys(current["A"])
         /\ lastStep'.kind = "set"
         /\ lastStep'.updater \in {"setBot", "setSystem", "setList", "push", "clear"} )
       => /\ lastStep'.throws
          /\ current' = current
          /\ lsRecord' = lsRecord
          /\ syncTimeout' = syncTimeout
          /\ handle[1].id \notin ObjKeys(current'["A"])]_vars

C37_Witness ==
    /\ lastStep.kind = "set"
    /\ lastStep.updater = "push"
    /\ lastStep.throws
    /\ envCount = 1
    /\ handle # <<>>
    /\ handle[1].id = "h1"
    /\ Len(handle[1].list) = 2
    /\ "h1" \in ObjKeys(log.prior[1])
    /\ current["A"] = <<>>
    /\ lsRecord = << <<>> >>

\* C38 (loading flag): loading.status is true in every state in which at
\* least one Bot.chat call is in flight (it has set the flag and has not
\* settled), overlapping calls included, and false once every call has
\* settled.
C38_LoadingFlag ==
    ValueOf(current["A"], "status") = IF InFlight # {} THEN "true" ELSE "false"

\* C39 (retry bound): saveStateWithRetry makes at most MAX_RETRY_COUNT + 1
\* setItem attempts, each after the first started by a RETRY_DELAY timer
\* that a failed attempt set; it gives up only after MAX_RETRY_COUNT + 1
\* attempts that all failed; an attempt that succeeds leaves the value
\* persisted, and after a success or after giving up it does nothing more.
C39_BoundedRetry ==
    [][/\ retry'.attempts <= MAX_RETRY_COUNT + 1
       /\ retry'.attempts # retry.attempts =>
            /\ retry.phase = "timer"
            /\ retry'.attempts = retry.attempts + 1
            /\ log.failures = retry.attempts
       /\ retry'.phase = "stopped" =>
            /\ retry'.attempts = MAX_RETRY_COUNT + 1
            /\ log'.failures = MAX_RETRY_COUNT + 1
            /\ record' = record
       /\ retry'.phase = "done" =>
            /\ record' = <<retry.state>>
            /\ log'.failures = retry'.attempts - 1
       /\ retry.phase \in {"done", "stopped"} => retry' = retry]_vars

C39_Witness ==
    /\ retry.phase = "done"
    /\ retry.attempts = MAX_RETRY_COUNT + 1
    /\ log.failures = MAX_RETRY_COUNT
    /\ log.prior # <<>>
    /\ log.prior # <<retry.state>>
    /\ record = <<retry.state>>

====
